---- MODULE Spec2Model ----
(***************************************************************************)
(* Model of the slash-command autocomplete hook                            *)
(* (frontend/src/hooks/chat/use-slash-command.ts) together with the way    *)
(* the chat input container shows the suggestion menu.                     *)
(*                                                                         *)
(* Strings are sequences of one-character strings.  The editable surface   *)
(* is its text content `text` and the caret offset `caret` (-1 when there  *)
(* is no selection).  React state (isMenuOpen, filterText, selectedIndex)  *)
(* and the shadow refs the keyboard handler reads are separate variables;  *)
(* Render copies the one into the other as a render pass does.             *)
(***************************************************************************)
EXTENDS Integers, Sequences, FiniteSets, TLC

\* ---------------------------------------------------------------- bounds
\* longest text the user types (a commit may make the text longer)
MaxLen == 3
\* longest skill list the query returns
MaxSkills == 2

\* ------------------------------------------------------------ characters
NL == "\n"

Chars == {"/", "a", " ", NL}

\* JavaScript \s restricted to the alphabet
IsSpace(c) == c \in {" ", NL}

Min(a, b) == IF a < b THEN a ELSE b

\* String.prototype.slice(a, b) for non-negative a, b (indices are clamped)
Slice(s, a, b) == SubSeq(s, Min(a, Len(s)) + 1, Min(b, Len(s)))

\* String.prototype.slice(a)
SliceFrom(s, a) == Slice(s, a, Len(s))

\* .replace(/[\n\r\s]+$/, ""), which takes trailing spaces away as well
StripTrailingNewlines_AlsoSpaces(s) ==
  LET keep == { n \in 0..Len(s) :
                  \A k \in (n + 1)..Len(s) : s[k] \in {NL, " "} }
  IN SubSeq(s, 1, CHOOSE n \in keep : \A m \in keep : n <= m)

\* .replace(/[\n\r]+$/, "")
RECURSIVE StripTrailingNewlines(_)
StripTrailingNewlines(s) ==
  IF s = <<>> \/ s[Len(s)] # NL THEN s
  ELSE StripTrailingNewlines(SubSeq(s, 1, Len(s) - 1))

\* String.prototype.toLowerCase
ToLower(s) == [i \in 1..Len(s) |-> IF s[i] = "A" THEN "a" ELSE s[i]]

\* String.prototype.includes
Includes(s, sub) ==
  \E i \in 0..(Len(s) - Len(sub)) : SubSeq(s, i + 1, i + Len(sub)) = sub

\* String.prototype.startsWith("/")
StartsWithSlash(s) == Len(s) > 0 /\ s[1] = "/"

\* ---------------------------------------------------------------- skills
SkillA == [name |-> <<"a">>, type |-> "agentskills", triggers |-> <<>>]

SkillB == [name |-> <<"a", "a">>, type |-> "knowledge",
           triggers |-> << <<"/", "a", "a">>, <<"a">>, <<"/", "a", "/">> >>]

SkillUniverse == {SkillA, SkillB}

\* the lists the query returns: sub-lists of <<SkillA, SkillB>>, at most
\* MaxSkills long
SkillLists ==
  { l \in UNION { [1..n -> SkillUniverse] : n \in 0..MaxSkills } :
      \A i, j \in 1..Len(l) : i < j => (l[i] = SkillA /\ l[j] = SkillB) }

\* the query's data: undefined while loading, a list afterwards
SkillData ==
  {[loaded |-> FALSE, list |-> <<>>]} \cup
  {[loaded |-> TRUE, list |-> l] : l \in SkillLists}

RECURSIVE TriggerItems(_, _)
TriggerItems(skill, trs) ==
  IF trs = <<>> THEN <<>>
  ELSE <<[skill |-> skill, command |-> Head(trs)]>> \o TriggerItems(skill, Tail(trs))

\* SkillItems that derives "/<name>" for a skill of any type
SkillItems_DerivesForAnyType(skill) ==
  LET slashTriggers == SelectSeq(skill.triggers, StartsWithSlash)
  IN IF Len(slashTriggers) > 0 THEN TriggerItems(skill, slashTriggers)
     ELSE <<[skill |-> skill, command |-> <<"/">> \o skill.name]>>

SkillItems(skill) ==
  LET slashTriggers == SelectSeq(skill.triggers, StartsWithSlash)
  IN IF Len(slashTriggers) > 0 THEN TriggerItems(skill, slashTriggers)
     ELSE IF skill.type = "agentskills"
          THEN <<[skill |-> skill, command |-> <<"/">> \o skill.name]>>
          ELSE <<>>

RECURSIVE ItemsOf(_)
ItemsOf(list) ==
  IF list = <<>> THEN <<>> ELSE SkillItems(Head(list)) \o ItemsOf(Tail(list))

slashItems(sk) == IF ~sk.loaded THEN <<>> ELSE ItemsOf(sk.list)

\* filteredItems that compares without lower-casing the candidate
filteredItems_CaseSensitive(items, f) ==
  IF f = <<>> THEN items
  ELSE LET lower == ToLower(f)
           Keep(item) == \/ Includes(Tail(item.command), lower)
                         \/ Includes(item.skill.name, lower)
       IN SelectSeq(items, Keep)

filteredItems(items, f) ==
  IF f = <<>> THEN items
  ELSE LET lower == ToLower(f)
           Keep(item) == \/ Includes(ToLower(Tail(item.command)), lower)
                         \/ Includes(ToLower(item.skill.name), lower)
       IN SelectSeq(items, Keep)

NoItem == [skill |-> [name |-> <<>>, type |-> "none", triggers |-> <<>>],
           command |-> <<>>]

\* ----------------------------------------------------------------- state
VARIABLES
  mounted,          \* chatInputRef.current is an element
  text,             \* the element's text
  caret,            \* caret offset in the element's text, -1: no selection
  skills,           \* data of useConversationSkills
  isMenuOpen,       \* useState
  filterText,       \* useState
  selectedIndex,    \* useState
  isMenuOpenRef,    \* useRef, read by handleSlashKeyDown
  filteredItemsRef, \* useRef, read by handleSlashKeyDown
  selectedIndexRef, \* useRef, read by handleSlashKeyDown
  slashRangeRef,    \* useRef: the recorded token range
  event,            \* the event handled last and what its handler returned
  log               \* what the last handler did to the element, in order

\* a pure function under examination: its argument and its result
VARIABLES
  fnArg,            \* the argument the function is applied to
  fnResult          \* [done |-> FALSE] or [done |-> TRUE, value |-> ...]

\* the onboarding form (OnboardingForm)
VARIABLES
  currentStepIndex, \* useState
  selections,       \* useState: step id -> option id, for the keys set
  submitted,        \* the selections of each submitOnboarding call, in order
  tracked,          \* the arguments of each trackOnboardingCompleted call
  chosen,           \* history: the option clicked last on each step
  pending,          \* submitOnboarding mutations that have not settled
  redirected,       \* the mutation settled and the form was left for "/"
  click             \* the control clicked last

\* the open-repository modal (OpenRepositoryModal) and the flag of its parent
VARIABLES
  isOpenRepoModalOpen, \* useState of the parent: the isOpen property
  providers,           \* useUserProviders
  selectedProvider,    \* useState, "null" for null
  selectedRepository,  \* useState, NoRepository for null
  selectedBranch,      \* useState, NoBranch for null
  launched,            \* the arguments of each onLaunch call, in order
  closed,              \* how often onClose was called
  modalEvent           \* the handler that ran last and what it was given

\* the repository update of a conversation (useUpdateConversationRepository)
\* and the git control bar that starts it (GitControlBar)
VARIABLES
  conversationId,        \* useParams, "undefined" when the route has none
  cache,                 \* query data of ["user", "conversation", id]
  server,                \* the conversation as the server holds it
  mutations,             \* the mutations started, in order
  toasts,                \* the toasts displayed, in order
  invalidated,           \* the query keys invalidated, in order
  webSocketStatus,       \* useUnifiedWebSocketStatus
  webSocketStatusRef,    \* useRef, written by an effect
  sent,                  \* the messages handed to send, in order
  optimisticUserMessage, \* the optimistic user message store
  recentRepositories,    \* the arguments of addRecentRepository, in order
  repoEvent              \* the step taken last

hookVars == <<mounted, text, caret, skills, isMenuOpen, filterText,
              selectedIndex, isMenuOpenRef, filteredItemsRef,
              selectedIndexRef, slashRangeRef, event, log>>

fnVars == <<fnArg, fnResult>>

formVars ==
  <<currentStepIndex, selections, submitted, tracked, chosen, pending,
    redirected, click>>

modalVars ==
  <<isOpenRepoModalOpen, providers, selectedProvider, selectedRepository,
    selectedBranch, launched, closed, modalEvent>>

repoVars ==
  <<conversationId, cache, server, mutations, toasts, invalidated, webSocketStatus,
    webSocketStatusRef, sent, optimisticUserMessage, recentRepositories,
    repoEvent>>

vars == <<hookVars, fnVars, formVars, modalVars, repoVars>>

\* what the handlers of the slash-command hook never touch
notHookVars == <<fnVars, formVars, modalVars, repoVars>>

\* what the functions under examination never touch
notFnVars == <<hookVars, formVars, modalVars, repoVars>>

\* what the onboarding form never touches
notFormVars == <<hookVars, fnVars, modalVars, repoVars>>

\* what the open-repository modal never touches
notModalVars == <<hookVars, fnVars, formVars, repoVars>>

\* what the repository update never touches
notRepoVars == <<hookVars, fnVars, formVars, modalVars>>

NoRange == [start |-> -1, end |-> -1]

NoToken == [found |-> FALSE, text |-> <<>>, start |-> -1, end |-> -1]

Ev(op, key, ret, prevented, item) ==
  [op |-> op, key |-> key, ret |-> ret, prevented |-> prevented, item |-> item]

\* no handler of the hook ran in the last step
NoEvent == Ev("none", "none", FALSE, FALSE, NoItem)

Keys == {"ArrowDown", "ArrowUp", "Enter", "Tab", "Escape",
         "ArrowLeft", "ArrowRight", "Home", "End", "a"}

\* ------------------------------------------------------------ detection
\* getCursorOffset: the caret's character offset, -1 without a selection
getCursorOffset(c) == IF c < 0 THEN -1 ELSE c

\* textBeforeCursor.match(/(^|\s)(\/\S*)$/): length of group 2, -1: no match
MatchSlashWord(before) ==
  LET starts == { p \in 1..Len(before) :
                    /\ before[p] = "/"
                    /\ (p = 1 \/ IsSpace(before[p - 1]))
                    /\ \A q \in (p + 1)..Len(before) : ~IsSpace(before[q]) }
  IN IF starts = {} THEN -1
     ELSE Len(before) - (CHOOSE p \in starts : \A r \in starts : p <= r) + 1

\* afterCursor.match(/^\S*/)[0].length
LeadingNonSpace(after) ==
  CHOOSE k \in 0..Len(after) :
    /\ \A q \in 1..k : ~IsSpace(after[q])
    /\ (k < Len(after) => IsSpace(after[k + 1]))

getSlashText(el, innerText, sel) ==
  IF ~el THEN NoToken
  ELSE
    LET t == StripTrailingNewlines(innerText)
        cursor == getCursorOffset(sel)
    IN IF cursor < 0 THEN NoToken
       ELSE
         LET textBeforeCursor == Slice(t, 0, cursor)
             wordLen == MatchSlashWord(textBeforeCursor)
         IN IF wordLen < 0 THEN NoToken
            ELSE
              LET start == Len(textBeforeCursor) - wordLen
                  slashWord == SliceFrom(textBeforeCursor, start)
                  afterCursor == SliceFrom(t, cursor)
                  end == cursor + LeadingNonSpace(afterCursor)
              IN [found |-> TRUE, text |-> SliceFrom(slashWord, 1),
                  start |-> start, end |-> end]

\* --------------------------------------------------------------- render
\* Render that leaves the index ref at the value of the previous render
Render_StaleIndexRef(sk, o, f, i) ==
  LET i2 == IF f # filterText THEN 0 ELSE i
  IN /\ isMenuOpen' = o
     /\ filterText' = f
     /\ selectedIndex' = i2
     /\ isMenuOpenRef' = o
     /\ filteredItemsRef' = filteredItems(slashItems(sk), f)
     /\ selectedIndexRef' = selectedIndexRef

\* A render pass with the queued state (o, f, i) and skill data sk: the
\* effect on filterText resets the index, and the refs follow the state.
Render(sk, o, f, i) ==
  LET i2 == IF f # filterText THEN 0 ELSE i
  IN /\ isMenuOpen' = o
     /\ filterText' = f
     /\ selectedIndex' = i2
     /\ isMenuOpenRef' = o
     /\ filteredItemsRef' = filteredItems(slashItems(sk), f)
     /\ selectedIndexRef' = i2

\* MenuUpdate that opens the menu without looking at the candidate list
MenuUpdate_IgnoresCandidates(el, t, c) ==
  LET result == getSlashText(el, t, c)
  IN IF result.found
     THEN [open |-> TRUE, filter |-> result.text,
           range |-> [start |-> result.start, end |-> result.end]]
     ELSE [open |-> FALSE, filter |-> <<>>, range |-> NoRange]

\* the state updateSlashMenu queues for the element's text t and caret c
MenuUpdate(el, t, c) ==
  LET result == getSlashText(el, t, c)
  IN IF result.found /\ Len(slashItems(skills)) > 0
     THEN [open |-> TRUE, filter |-> result.text,
           range |-> [start |-> result.start, end |-> result.end]]
     ELSE [open |-> FALSE, filter |-> <<>>, range |-> NoRange]

\* ------------------------------------------------------------- actions
\* the text and caret after one edit of the user (typing, deleting, none)
Edits ==
  IF ~mounted \/ caret < 0 THEN {[text |-> text, caret |-> caret]}
  ELSE {[text |-> text, caret |-> caret]}
       \cup {[text |-> Slice(text, 0, caret) \o <<c>> \o SliceFrom(text, caret),
              caret |-> caret + 1] : c \in {x \in Chars : Len(text) < MaxLen}}
       \cup {[text |-> Slice(text, 0, caret - 1) \o SliceFrom(text, caret),
              caret |-> caret - 1] : x \in {y \in {0} : caret > 0}}

\* updateSlashMenu that leaves the recorded range as it was
updateSlashMenu_KeepsRange ==
  /\ \E e \in Edits :
       LET u == MenuUpdate(mounted, e.text, e.caret)
       IN /\ text' = e.text
          /\ caret' = e.caret
          /\ Render(skills, u.open, u.filter, selectedIndex)
          /\ event' = Ev("input", "none", FALSE, FALSE, NoItem)
          /\ log' = <<>>
          /\ UNCHANGED <<mounted, skills, slashRangeRef>>
  /\ UNCHANGED notHookVars

\* onInput: the element's content changed, updateSlashMenu runs
updateSlashMenu ==
  /\ \E e \in Edits :
       LET u == MenuUpdate(mounted, e.text, e.caret)
       IN /\ text' = e.text
          /\ caret' = e.caret
          /\ slashRangeRef' = u.range
          /\ Render(skills, u.open, u.filter, selectedIndex)
          /\ event' = Ev("input", "none", FALSE, FALSE, NoItem)
          /\ log' = <<>>
          /\ UNCHANGED <<mounted, skills>>
  /\ UNCHANGED notHookVars

\* SpliceText that also swallows the character after the range
SpliceText_SkipsOne(currentText, range, replacement) ==
  Slice(currentText, 0, range.start) \o replacement
    \o SliceFrom(currentText, range.end + 1)

\* the text the commit writes for a recorded range
SpliceText(currentText, range, replacement) ==
  Slice(currentText, 0, range.start) \o replacement
    \o SliceFrom(currentText, range.end)

\* selectItem without setSelectedIndex(0)
selectItem_KeepsIndex(item) ==
  IF ~mounted
  THEN UNCHANGED <<text, caret, slashRangeRef, isMenuOpen, filterText,
                   selectedIndex, isMenuOpenRef, filteredItemsRef,
                   selectedIndexRef>>
       /\ log' = <<>>
  ELSE
    LET slashRange == slashRangeRef
        currentText == StripTrailingNewlines(text)
        replacement == item.command \o <<" ">>
        newText == IF slashRange # NoRange
                   THEN SpliceText(currentText, slashRange, replacement)
                   ELSE replacement
        newCaret == IF slashRange # NoRange
                    THEN Min(slashRange.start + Len(replacement), Len(newText))
                    ELSE Len(newText)
        u == MenuUpdate(TRUE, newText, newCaret)
    IN /\ text' = newText
       /\ caret' = newCaret
       /\ slashRangeRef' = u.range
       /\ Render(skills, u.open, u.filter, selectedIndex)
       /\ log' = <<"textContent",
                   IF slashRange # NoRange THEN "setStart"
                   ELSE "selectNodeContents",
                   "state", "input", "focus">>

\* selectItem whose fallback appends to the content instead of replacing it
selectItem_FallbackAppends(item) ==
  IF ~mounted
  THEN UNCHANGED <<text, caret, slashRangeRef, isMenuOpen, filterText,
                   selectedIndex, isMenuOpenRef, filteredItemsRef,
                   selectedIndexRef>>
       /\ log' = <<>>
  ELSE
    LET slashRange == slashRangeRef
        currentText == StripTrailingNewlines(text)
        replacement == item.command \o <<" ">>
        newText == IF slashRange # NoRange
                   THEN SpliceText(currentText, slashRange, replacement)
                   ELSE currentText \o replacement
        newCaret == IF slashRange # NoRange
                    THEN Min(slashRange.start + Len(replacement), Len(newText))
                    ELSE Len(newText)
        u == MenuUpdate(TRUE, newText, newCaret)
    IN /\ text' = newText
       /\ caret' = newCaret
       /\ slashRangeRef' = u.range
       /\ Render(skills, u.open, u.filter, 0)
       /\ log' = <<"textContent",
                   IF slashRange # NoRange THEN "setStart"
                   ELSE "selectNodeContents",
                   "state", "input", "focus">>

\* selectItem, the input event it dispatches included
selectItem(item) ==
  IF ~mounted
  THEN UNCHANGED <<text, caret, slashRangeRef, isMenuOpen, filterText,
                   selectedIndex, isMenuOpenRef, filteredItemsRef,
                   selectedIndexRef>>
       /\ log' = <<>>
  ELSE
    LET slashRange == slashRangeRef
        currentText == StripTrailingNewlines(text)
        replacement == item.command \o <<" ">>
        newText == IF slashRange # NoRange
                   THEN SpliceText(currentText, slashRange, replacement)
                   ELSE replacement
        newCaret == IF slashRange # NoRange
                    THEN Min(slashRange.start + Len(replacement), Len(newText))
                    ELSE Len(newText)
        \* the dispatched input event runs updateSlashMenu on the new content
        u == MenuUpdate(TRUE, newText, newCaret)
    IN /\ text' = newText
       /\ caret' = newCaret
       /\ slashRangeRef' = u.range
       /\ Render(skills, u.open, u.filter, 0)
       /\ log' = <<"textContent",
                   IF slashRange # NoRange THEN "setStart"
                   ELSE "selectNodeContents",
                   "state", "input", "focus">>

\* NextIndexDown without the wrap to 0
NextIndexDown_NoWrap(prev, n) == prev + 1

NextIndexDown(prev, n) == IF prev < n - 1 THEN prev + 1 ELSE 0

NextIndexUp(prev, n) == IF prev > 0 THEN prev - 1 ELSE n - 1

\* the guard without the test of the open flag
HandlerActive_IgnoresOpen == Len(filteredItemsRef) > 0

\* the guard of handleSlashKeyDown; the key is read only when it holds
HandlerActive == isMenuOpenRef /\ Len(filteredItemsRef) > 0

\* the handler does nothing: nothing changes, the event is not consumed
KeyIgnored(k) ==
  /\ event' = Ev("keydown", IF HandlerActive THEN k ELSE "unread",
                 FALSE, FALSE, NoItem)
  /\ log' = <<>>
  /\ UNCHANGED <<text, caret, slashRangeRef, isMenuOpen, filterText,
                 selectedIndex, isMenuOpenRef, filteredItemsRef,
                 selectedIndexRef>>

KeyArrow(k, items) ==
  /\ Render(skills, isMenuOpen, filterText,
            IF k = "ArrowDown" THEN NextIndexDown(selectedIndex, Len(items))
            ELSE NextIndexUp(selectedIndex, Len(items)))
  /\ event' = Ev("keydown", k, TRUE, TRUE, NoItem)
  /\ log' = <<>>
  /\ UNCHANGED <<text, caret, slashRangeRef>>

\* KeyCommit that always takes the first candidate
KeyCommit_First(k, items) ==
  /\ selectItem(items[1])
  /\ event' = Ev("keydown", k, TRUE, TRUE, items[1])

KeyCommit(k, items) ==
  IF selectedIndexRef >= Len(items) THEN KeyIgnored(k)
  ELSE /\ selectItem(items[selectedIndexRef + 1])
       /\ event' = Ev("keydown", k, TRUE, TRUE, items[selectedIndexRef + 1])

KeyEscape(k) ==
  /\ Render(skills, FALSE, filterText, selectedIndex)
  /\ event' = Ev("keydown", k, TRUE, TRUE, NoItem)
  /\ log' = <<>>
  /\ UNCHANGED <<text, caret, slashRangeRef>>

\* KeyCursor that consumes the event as Escape does
KeyCursor_Consumes(k) ==
  /\ Render(skills, FALSE, filterText, selectedIndex)
  /\ event' = Ev("keydown", k, TRUE, TRUE, NoItem)
  /\ log' = <<>>
  /\ UNCHANGED <<text, caret, slashRangeRef>>

KeyCursor(k) ==
  /\ Render(skills, FALSE, filterText, selectedIndex)
  /\ event' = Ev("keydown", k, FALSE, FALSE, NoItem)
  /\ log' = <<>>
  /\ UNCHANGED <<text, caret, slashRangeRef>>

handleSlashKeyDown(k) ==
  /\ mounted
  /\ Len(text) <= MaxLen
  /\ LET items == filteredItemsRef
     IN IF ~HandlerActive THEN KeyIgnored(k)
        ELSE CASE k \in {"ArrowDown", "ArrowUp"} -> KeyArrow(k, items)
               [] k \in {"Enter", "Tab"} -> KeyCommit(k, items)
               [] k = "Escape" -> KeyEscape(k)
               [] k \in {"ArrowLeft", "ArrowRight", "Home", "End"} -> KeyCursor(k)
               [] OTHER -> KeyIgnored(k)
  /\ UNCHANGED <<mounted, skills>>
  /\ UNCHANGED notHookVars

\* a row of the displayed menu is pressed
MenuMouseDown ==
  /\ mounted
  /\ Len(text) <= MaxLen
  /\ isMenuOpen
  /\ \E n \in 1..Len(filteredItems(slashItems(skills), filterText)) :
       LET item == filteredItems(slashItems(skills), filterText)[n]
       IN /\ selectItem(item)
          /\ event' = Ev("mousedown", "none", FALSE, TRUE, item)
  /\ UNCHANGED <<mounted, skills>>
  /\ UNCHANGED notHookVars

closeMenu ==
  /\ isMenuOpen
  /\ Render(skills, FALSE, filterText, selectedIndex)
  /\ event' = NoEvent
  /\ log' = <<>>
  /\ UNCHANGED <<mounted, text, caret, skills, slashRangeRef>>
  /\ UNCHANGED notHookVars

\* the caret is moved by the pointer or by an unconsumed key, or is lost
MoveCaret ==
  /\ mounted
  /\ \E c \in (-1)..Len(text) : c # caret /\ caret' = c
  /\ event' = NoEvent
  /\ log' = <<>>
  /\ UNCHANGED <<mounted, text, skills, slashRangeRef, isMenuOpen, filterText,
                 selectedIndex, isMenuOpenRef, filteredItemsRef,
                 selectedIndexRef>>
  /\ UNCHANGED notHookVars

\* the skills query delivers new data and the hook renders again
SkillsChange ==
  /\ \E sk \in SkillData \ {skills} :
       /\ sk.loaded
       /\ skills' = sk
       /\ Render(sk, isMenuOpen, filterText, selectedIndex)
  /\ event' = NoEvent
  /\ log' = <<>>
  /\ UNCHANGED <<mounted, text, caret, slashRangeRef>>
  /\ UNCHANGED notHookVars

\* the editable element is attached to chatInputRef
Mount ==
  /\ ~mounted
  /\ mounted' = TRUE
  /\ event' = NoEvent
  /\ log' = <<>>
  /\ UNCHANGED <<text, caret, skills, slashRangeRef, isMenuOpen, filterText,
                 selectedIndex, isMenuOpenRef, filteredItemsRef,
                 selectedIndexRef>>
  /\ UNCHANGED notHookVars

\* a consumer of the hook calls the returned selectItem with a candidate,
\* whether or not the menu is displayed
SelectItemCall ==
  /\ mounted
  /\ Len(text) <= MaxLen
  /\ \E n \in 1..Len(slashItems(skills)) :
       /\ selectItem(slashItems(skills)[n])
       /\ event' = Ev("select", "none", FALSE, FALSE, slashItems(skills)[n])
  /\ UNCHANGED <<mounted, skills>>
  /\ UNCHANGED notHookVars

\* no pure function is under examination
FnIdle == fnArg = <<>> /\ fnResult = [done |-> FALSE]

\* the onboarding form is not on screen
FormIdle ==
  /\ currentStepIndex = 0
  /\ selections = <<>>
  /\ submitted = <<>>
  /\ tracked = <<>>
  /\ chosen = <<>>
  /\ pending = 0
  /\ redirected = FALSE
  /\ click = "none"

HookInit ==
  /\ mounted = FALSE
  /\ text = <<>>
  /\ caret = -1
  /\ skills = [loaded |-> FALSE, list |-> <<>>]
  /\ isMenuOpen = FALSE
  /\ filterText = <<>>
  /\ selectedIndex = 0
  /\ isMenuOpenRef = FALSE
  /\ filteredItemsRef = <<>>
  /\ selectedIndexRef = 0
  /\ slashRangeRef = NoRange
  /\ event = NoEvent
  /\ log = <<>>

\* null and undefined where a repository is expected
NoRepository ==
  [id |-> 0, full_name |-> "", git_provider |-> "", main_branch |-> ""]

\* null where a branch is expected
NoBranch == [name |-> ""]

\* the modal is not shown and nothing is selected
ModalIdle ==
  /\ isOpenRepoModalOpen = FALSE
  /\ providers = <<>>
  /\ selectedProvider = "null"
  /\ selectedRepository = NoRepository
  /\ selectedBranch = NoBranch
  /\ launched = <<>>
  /\ closed = 0
  /\ modalEvent = [op |-> "none"]

\* getQueryData when the query has no data: undefined
NoData ==
  [loaded |-> FALSE, selected_repository |-> "", selected_branch |-> "",
   git_provider |-> ""]

\* a conversation as the conversation query holds it
Conversation(repository, branch, gitProvider) ==
  [loaded |-> TRUE, selected_repository |-> repository,
   selected_branch |-> branch, git_provider |-> gitProvider]

\* no conversation is shown and no update was started
RepoIdle ==
  /\ conversationId = "undefined"
  /\ cache = NoData
  /\ server = Conversation("null", "null", "null")
  /\ mutations = <<>>
  /\ toasts = <<>>
  /\ invalidated = <<>>
  /\ webSocketStatus = "DISCONNECTED"
  /\ webSocketStatusRef = "DISCONNECTED"
  /\ sent = <<>>
  /\ optimisticUserMessage = <<>>
  /\ recentRepositories = <<>>
  /\ repoEvent = [op |-> "none"]

NotFnIdle == HookInit /\ FormIdle /\ ModalIdle /\ RepoIdle

Init == HookInit /\ FnIdle /\ FormIdle /\ ModalIdle /\ RepoIdle

Next ==
  \/ updateSlashMenu
  \/ \E k \in Keys : handleSlashKeyDown(k)
  \/ MenuMouseDown
  \/ closeMenu
  \/ MoveCaret
  \/ SkillsChange
  \/ Mount

Spec == Init /\ [][Next]_vars

TypeOK ==
  /\ mounted \in BOOLEAN
  /\ caret \in (-1)..Len(text)
  /\ skills \in SkillData
  /\ isMenuOpen \in BOOLEAN
  /\ selectedIndex \in Nat

\* the hook with selectItem open to every consumer
SpecSelectAnyTime == Init /\ [][Next \/ SelectItemCall]_vars

\* ------------------------------------------------- shared vocabulary
\* the text the hook works on: the element's text without trailing newlines
HookText == StripTrailingNewlines(text)

Candidates == slashItems(skills)

Filtered == filteredItems(slashItems(skills), filterText)

\* the last step was a commit of event.item (Enter, Tab or a pressed row)
Committed == event.item # NoItem

HookState == <<isMenuOpen, filterText, selectedIndex, slashRangeRef, text>>

\* --------------------------------------------------------------- C1
\* C1 (as stated): after every recompute the menu is open iff a token is
\* detected at the caret and the candidate list is non-empty; when open the
\* filter text is every character of the recorded token after its '/', and
\* the token range is recorded; otherwise menu closed, filter empty, range
\* cleared.
C1_FilterIsWholeToken ==
  event.op = "input" =>
    LET r == getSlashText(mounted, text, caret)
    IN /\ isMenuOpen <=> (r.found /\ Len(Candidates) > 0)
       /\ isMenuOpen =>
            /\ slashRangeRef = [start |-> r.start, end |-> r.end]
            /\ filterText = Slice(HookText, slashRangeRef.start + 1,
                                  slashRangeRef.end)
       /\ ~isMenuOpen => filterText = <<>> /\ slashRangeRef = NoRange

\* C1 (amended): the same, but the filter text is the characters between
\* the '/' of the token and the caret; the part of the token after the
\* caret belongs to the recorded range and not to the filter text.
C1_RecomputeOpensIffTokenAndCandidates ==
  event.op = "input" =>
    LET r == getSlashText(mounted, text, caret)
    IN /\ isMenuOpen <=> (r.found /\ Len(Candidates) > 0)
       /\ isMenuOpen =>
            /\ slashRangeRef = [start |-> r.start, end |-> r.end]
            /\ filterText = Slice(HookText, slashRangeRef.start + 1, caret)
       /\ ~isMenuOpen => filterText = <<>> /\ slashRangeRef = NoRange

\* a recompute opened the menu with the caret inside the token
C1_Witness ==
  /\ event.op = "input"
  /\ isMenuOpen
  /\ filterText # <<>>
  /\ caret < slashRangeRef.end

\* --------------------------------------------------------------- C2
CommitStep == event'.item # NoItem /\ slashRangeRef # NoRange

\* C2 (as stated): a commit with recorded range [start, end) sets the
\* surface text to text[0..start) + command + " " + text[end..), text being
\* the surface text before the commit, and the caret to
\* start + length(command) + 1.
C2_SpliceOfSurfaceText ==
  [][CommitStep =>
       /\ text' = Slice(text, 0, slashRangeRef.start)
                    \o event'.item.command \o <<" ">>
                    \o SliceFrom(text, slashRangeRef.end)
       /\ caret' = slashRangeRef.start + Len(event'.item.command) + 1]_vars

\* C2 (amended): the same with text being the surface text without its
\* trailing line breaks: the commit drops trailing line breaks, every other
\* character outside the range is unchanged.
C2_SpliceOfHookText ==
  [][CommitStep =>
       /\ text' = Slice(HookText, 0, slashRangeRef.start)
                    \o event'.item.command \o <<" ">>
                    \o SliceFrom(HookText, slashRangeRef.end)
       /\ caret' = slashRangeRef.start + Len(event'.item.command) + 1]_vars

\* a commit that left characters before and after the inserted command
C2_Witness ==
  /\ Committed
  /\ caret > Len(event.item.command) + 1
  /\ caret < Len(text)

\* --------------------------------------------------------------- C3
\* C3: committing over a token that is followed by a space and more text
\* leaves one space between the command and the following word (as
\* "hello /foo world" becomes "hello /foobar world"), the caret right after
\* that space.
C3_OneSeparatorAfterCommand ==
  [][(/\ CommitStep
      /\ slashRangeRef.end + 2 <= Len(HookText)
      /\ HookText[slashRangeRef.end + 1] = " "
      /\ ~IsSpace(HookText[slashRangeRef.end + 2]))
     => LET p == slashRangeRef.start + Len(event'.item.command)
        IN /\ Len(text') >= p + 2
           /\ text'[p + 1] = " "
           /\ ~IsSpace(text'[p + 2])
           /\ caret' = p + 1]_vars

\* --------------------------------------------------------------- C4
\* the conditions C4 puts on a detected range, for the text t
RangeWellFormed(r, t) ==
  /\ 0 <= r.start /\ r.start < r.end /\ r.end <= Len(t)
  /\ r.start <= caret /\ caret <= r.end
  /\ t[r.start + 1] = "/"
  /\ r.start = 0 \/ IsSpace(t[r.start])
  /\ \A q \in (r.start + 1)..r.end : ~IsSpace(t[q])
  /\ r.end = Len(t) \/ IsSpace(t[r.end + 1])

\* C4: whenever detection finds a token, its range starts at a '/' at
\* offset 0 or after whitespace, 0 <= start < end <= length(text),
\* start <= caret <= end, text[start..end) has no whitespace and ends at
\* the first whitespace or the end of the text (read on the surface text or
\* on the text without trailing line breaks).
C4_DetectedRangeWellFormed ==
  LET r == getSlashText(mounted, text, caret)
  IN r.found => RangeWellFormed(r, text) \/ RangeWellFormed(r, HookText)

\* --------------------------------------------------------------- C5
KeyStep(keys) == event'.op = "keydown" /\ event'.key \in keys

\* C5: while the menu is open with a non-empty filtered list, Enter or Tab
\* commits the candidate at the highlighted index and consumes the event;
\* with no candidate at the highlighted index nothing is committed, nothing
\* changes and the event is not consumed.
C5_EnterTabCommitsHighlighted ==
  [][KeyStep({"Enter", "Tab"}) =>
       /\ isMenuOpen /\ Len(Filtered) > 0
       /\ IF selectedIndex < Len(Filtered)
          THEN /\ event'.ret /\ event'.prevented
               /\ event'.item = Filtered[selectedIndex + 1]
               /\ text' = SpliceText(HookText, slashRangeRef,
                                     Filtered[selectedIndex + 1].command \o <<" ">>)
          ELSE /\ ~event'.ret /\ ~event'.prevented
               /\ event'.item = NoItem
               /\ UNCHANGED <<HookState, caret>>]_vars

\* Enter or Tab committed a candidate that is not the first of the list
C5_Witness ==
  /\ event.op = "keydown"
  /\ event.key \in {"Enter", "Tab"}
  /\ event.ret
  /\ Len(Candidates) >= 2
  /\ event.item = Candidates[2]

\* Enter or Tab found no candidate at the highlighted index
C5_WitnessNoCandidate ==
  /\ event.op = "keydown"
  /\ event.key \in {"Enter", "Tab"}
  /\ ~event.ret
  /\ selectedIndex >= Len(Filtered)

\* --------------------------------------------------------------- C6
\* C6: while the menu is open with n >= 1 filtered candidates and the index
\* i in 0..n-1, ArrowDown sets the index to i+1, or 0 from n-1, ArrowUp to
\* i-1, or n-1 from 0; both consume the event and the index stays in 0..n-1.
C6_ArrowsWrap ==
  [][KeyStep({"ArrowDown", "ArrowUp"}) =>
       LET n == Len(Filtered)
       IN /\ isMenuOpen /\ n >= 1
          /\ event'.ret /\ event'.prevented
          /\ selectedIndex < n =>
               /\ selectedIndex' = IF event'.key = "ArrowDown"
                                   THEN (selectedIndex + 1) % n
                                   ELSE (selectedIndex + n - 1) % n
               /\ selectedIndex' \in 0..(n - 1)
          /\ UNCHANGED <<isMenuOpen, filterText, slashRangeRef, text, caret>>]_vars

\* ArrowDown wrapped from the last of several candidates to the first
C6_Witness ==
  /\ event.op = "keydown"
  /\ event.key = "ArrowDown"
  /\ isMenuOpen
  /\ Len(Filtered) >= 2
  /\ selectedIndex = 0

\* --------------------------------------------------------------- C7
LogBefore(a, b) ==
  \E i, j \in 1..Len(log) : i < j /\ log[i] = a /\ log[j] = b

CursorKeys == {"ArrowLeft", "ArrowRight", "Home", "End"}

\* C8: while the menu is open with candidates, ArrowLeft, ArrowRight, Home
\* or End closes the menu and the event is not consumed: the handler
\* returns false, does not prevent the default and does not move the caret.
C8_CursorKeysCloseUnconsumed ==
  [][KeyStep(CursorKeys) =>
       /\ isMenuOpen /\ Len(Filtered) > 0
       /\ ~isMenuOpen'
       /\ ~event'.ret /\ ~event'.prevented
       /\ UNCHANGED <<text, caret>>]_vars

\* a cursor key closed the open menu
C8_Witness ==
  /\ event.op = "keydown"
  /\ event.key \in CursorKeys
  /\ ~isMenuOpen
  /\ ~event.ret

\* --------------------------------------------------------------- C9
HandledKeys == {"ArrowDown", "ArrowUp", "Enter", "Tab", "Escape"} \cup CursorKeys

\* C9: a key pressed while the menu is closed or no candidate matches the
\* filter, and any key other than the arrows, Enter, Tab, Escape, Home and
\* End while the handler is active, changes neither open flag, filter,
\* index, range nor text, and is not consumed.
C9_InactiveOrOtherKeyNoEffect ==
  [][(/\ event'.op = "keydown"
      /\ \/ ~(isMenuOpen /\ Len(Filtered) > 0)
         \/ event'.key \notin HandledKeys)
     => /\ UNCHANGED <<HookState, caret>>
        /\ ~event'.ret /\ ~event'.prevented
        /\ event'.item = NoItem]_vars

\* a key was pressed while the menu was closed although candidates exist
C9_Witness ==
  /\ event.op = "keydown"
  /\ event.key = "unread"
  /\ ~isMenuOpen
  /\ Len(Filtered) > 0
  /\ getSlashText(mounted, text, caret).found

\* a key the handler does not know was pressed while the menu was open
C9_WitnessOtherKey ==
  /\ event.op = "keydown"
  /\ event.key = "a"
  /\ isMenuOpen

\* -------------------------------------------------------------- C10
RefsFresh ==
  /\ isMenuOpenRef = isMenuOpen
  /\ filteredItemsRef = Filtered
  /\ selectedIndexRef = selectedIndex

\* C10: between events the values the keyboard handler reads are those the
\* earlier events produced; Enter after ArrowDown commits the candidate
\* highlighted by the ArrowDown, and a key after a closing recompute finds
\* the menu closed.
C10_HandlerReadsLatestState ==
  /\ []RefsFresh
  /\ [][(/\ event.op = "keydown" /\ event.key = "ArrowDown"
         /\ event'.op = "keydown")
        => /\ event'.key # "unread"
           /\ event'.key \in {"Enter", "Tab"} =>
                event'.item = IF selectedIndex < Len(Filtered)
                              THEN Filtered[selectedIndex + 1] ELSE NoItem]_vars
  /\ [][(event.op = "input" /\ ~isMenuOpen /\ event'.op = "keydown")
        => event'.key = "unread" /\ ~event'.ret]_vars

\* a key event was handled on an index that an earlier key event had moved
C10_Witness ==
  /\ event.op = "keydown"
  /\ event.key = "ArrowDown"
  /\ selectedIndexRef = 1
  /\ isMenuOpenRef
  /\ Len(filteredItemsRef) >= 2

\* -------------------------------------------------------------- C11
\* the rows the displayed menu marks selected: index === selectedIndex
SelectedRows == { n \in 0..(Len(Filtered) - 1) : n = selectedIndex }

\* C11: whenever the menu is displayed with a non-empty item list, exactly
\* one row is marked selected: the highlighted index is within
\* 0..length(filtered)-1, also after the filter text or the skill list
\* changed.
C11_ExactlyOneRowSelected ==
  (isMenuOpen /\ Len(Filtered) > 0) =>
    /\ selectedIndex \in 0..(Len(Filtered) - 1)
    /\ Cardinality(SelectedRows) = 1

\* longest candidate list and longest filter text filteredItems is
\* examined on
MaxItems == 2

MaxFilterLen == 2

\* -------------------------------------------------------------- C14
\* C14: a commit with no recorded range replaces the whole surface content
\* with the command and one space and puts the caret at the end of it.
C14_FallbackReplacesContent ==
  [][(event'.item # NoItem /\ slashRangeRef = NoRange) =>
       /\ text' = event'.item.command \o <<" ">>
       /\ caret' = Len(text')]_vars

\* a commit took the branch for a missing range
C14_Witness ==
  /\ Committed
  /\ Len(log) >= 2
  /\ log[2] = "selectNodeContents"
  /\ text = event.item.command \o <<" ">>

\* ------------------------------------------- slashItems as a function
\* trigger lists of the skills slashItems is examined on
TriggerLists ==
  { <<>>,
    << <<"/", "a">> >>,
    << <<"a">> >>,
    << <<"/", "a">>, <<"/", "b">> >>,
    << <<"/", "b">>, <<"/", "a">> >>,
    << <<"a">>, <<"/", "a">> >>,
    << <<"/", "a">>, <<"a">>, <<"/", "b">> >> }

CandidateSkills ==
  [name : {<<"a">>, <<"b">>}, type : {"agentskills", "knowledge"},
   triggers : TriggerLists]

\* the data of the skills query: undefined, or a list of at most MaxSkills
CandidateInputs ==
  {[loaded |-> FALSE, list |-> <<>>]} \cup
  {[loaded |-> TRUE, list |-> l] :
     l \in UNION { [1..n -> CandidateSkills] : n \in 0..MaxSkills }}

SlashItemsInit ==
  /\ fnArg \in CandidateInputs
  /\ fnResult = [done |-> FALSE]
  /\ NotFnIdle

\* the useMemo that builds slashItems runs
ComputeSlashItems ==
  /\ ~fnResult.done
  /\ fnResult' = [done |-> TRUE, value |-> slashItems(fnArg)]
  /\ UNCHANGED <<fnArg, notFnVars>>

SpecSlashItems == SlashItemsInit /\ [][ComputeSlashItems]_vars

\* -------------------------------------------------------------- C12
\* the k-th smallest element of a set of numbers
Kth(S, k) == CHOOSE x \in S : Cardinality({y \in S : y <= x}) = k

C12_SlashTriggerPositions(sk) ==
  { i \in 1..Len(sk.triggers) :
      Len(sk.triggers[i]) > 0 /\ sk.triggers[i][1] = "/" }

C12_Contribution(sk) ==
  LET pos == C12_SlashTriggerPositions(sk)
  IN IF pos # {}
     THEN [k \in 1..Cardinality(pos) |->
             [skill |-> sk, command |-> sk.triggers[Kth(pos, k)]]]
     ELSE IF sk.type = "agentskills"
          THEN <<[skill |-> sk, command |-> <<"/">> \o sk.name]>>
          ELSE <<>>

RECURSIVE C12_Expected(_)
C12_Expected(list) ==
  IF list = <<>> THEN <<>>
  ELSE C12_Contribution(Head(list)) \o C12_Expected(Tail(list))

FilterCommands == { <<"/", "a">>, <<"/", "b", "A">>, <<"/">> }

FilterNames == { <<"a", "b">>, <<"A">> }

FilterCandidates ==
  { [skill |-> [name |-> n, type |-> "knowledge", triggers |-> <<c>>],
     command |-> c] : n \in FilterNames, c \in FilterCommands }

FilterTexts ==
  UNION { [1..n -> {"a", "A", "b"}] : n \in 0..MaxFilterLen }

FilterInputs ==
  [items : UNION { [1..n -> FilterCandidates] : n \in 0..MaxItems },
   filter : FilterTexts]

FilteredItemsInit ==
  /\ fnArg \in FilterInputs
  /\ fnResult = [done |-> FALSE]
  /\ NotFnIdle

\* the useMemo that builds filteredItems runs
ComputeFilteredItems ==
  /\ ~fnResult.done
  /\ fnResult' = [done |-> TRUE,
                  value |-> filteredItems(fnArg.items, fnArg.filter)]
  /\ UNCHANGED <<fnArg, notFnVars>>

SpecFilteredItems == FilteredItemsInit /\ [][ComputeFilteredItems]_vars

\* -------------------------------------------------------------- C13
C13_SameLetter(x, y) == x = y \/ {x, y} \subseteq {"a", "A"}

\* f occurs in s as a substring, letter case not counted
C13_ContainsCI(s, f) ==
  \E off \in 0..(Len(s) - Len(f)) :
    \A j \in 1..Len(f) : C13_SameLetter(s[off + j], f[j])

C13_Matches(item, f) ==
  \/ C13_ContainsCI(SubSeq(item.command, 2, Len(item.command)), f)
  \/ C13_ContainsCI(item.skill.name, f)

\* C13: filtering keeps exactly the candidates whose command without its
\* leading slash, or whose skill name, contains the filter text as a
\* case-insensitive substring, in candidate order; the empty filter text
\* keeps every candidate.
C13_FilterKeepsMatches ==
  fnResult.done =>
    LET pos == { i \in 1..Len(fnArg.items) :
                   C13_Matches(fnArg.items[i], fnArg.filter) }
    IN /\ fnResult.value =
            [k \in 1..Cardinality(pos) |-> fnArg.items[Kth(pos, k)]]
       /\ fnArg.filter = <<>> => fnResult.value = fnArg.items

\* of two candidates the filter kept one, which matches only when letter
\* case is not counted
C13_Witness ==
  /\ fnResult.done
  /\ Len(fnArg.items) = 2
  /\ Len(fnResult.value) = 1
  /\ ~Includes(Tail(fnResult.value[1].command), fnArg.filter)
  /\ ~Includes(fnResult.value[1].skill.name, fnArg.filter)

\* ---------------------------------------- stripMarkdown as a function
\* the longest text under examination, in pieces of markup or plain text
MaxPieces == 4

\* the dot of a regular expression matches every character but a line terminator
LineTerminator(c) == c \in {NL, "\r"}

\* the characters markdown syntax is written with
\* the grave accent that delimits inline code
BackTick == "grave"

MarkupChars == {"*", "_", BackTick, "~", "[", "]", "(", ")"}

\* s holds n copies of d from position i on
RunAt(s, i, d, n) ==
  /\ i >= 1
  /\ i + n - 1 <= Len(s)
  /\ \A k \in 0..(n - 1) : s[i + k] = d

\* d{n}(.+?)d{n} tried at position i: the position of the closing run of
\* the match, 0 for no match; the lazy group takes the shortest content
EmphEnd(s, i, d, n) ==
  LET ends == { e \in (i + n + 1)..(Len(s) - n + 1) :
                  /\ RunAt(s, e, d, n)
                  /\ \A k \in (i + n)..(e - 1) : ~LineTerminator(s[k]) }
  IN IF RunAt(s, i, d, n) /\ ends # {}
     THEN CHOOSE e \in ends : \A x \in ends : e <= x
     ELSE 0

\* .replace(/d{n}(.+?)d{n}/g, "$1") from position i on
RECURSIVE StripEmphFrom(_, _, _, _)
StripEmphFrom(s, i, d, n) ==
  IF i > Len(s) THEN <<>>
  ELSE LET e == EmphEnd(s, i, d, n)
       IN IF e > 0
          THEN SubSeq(s, i + n, e - 1) \o StripEmphFrom(s, e + n, d, n)
          ELSE <<s[i]>> \o StripEmphFrom(s, i + 1, d, n)

StripEmph(s, d, n) == StripEmphFrom(s, 1, d, n)

\* the first position from i on that holds c, 0 for none
FirstAt(s, i, c) ==
  LET at == { k \in i..Len(s) : s[k] = c }
  IN IF at = {} THEN 0 ELSE CHOOSE k \in at : \A x \in at : k <= x

\* !?\[([^\]]*)\]\([^)]*\) tried at position i: where the text closes and
\* where the match ends, ok FALSE for no match
LinkMatch(s, i, image) ==
  LET open == IF image THEN i + 1 ELSE i
      close == FirstAt(s, open + 1, "]")
      last == IF close = 0 THEN 0 ELSE FirstAt(s, close + 2, ")")
  IN [ok |-> /\ open <= Len(s)
             /\ (image => s[i] = "!")
             /\ s[open] = "["
             /\ close > 0
             /\ close + 1 <= Len(s)
             /\ s[close + 1] = "("
             /\ last > 0,
      open |-> open, close |-> close, last |-> last]

\* .replace(/!?\[([^\]]*)\]\([^)]*\)/g, "$1") from position i on
RECURSIVE StripLinksFrom(_, _, _)
StripLinksFrom(s, i, image) ==
  IF i > Len(s) THEN <<>>
  ELSE LET m == LinkMatch(s, i, image)
       IN IF m.ok
          THEN SubSeq(s, m.open + 1, m.close - 1)
                 \o StripLinksFrom(s, m.last + 1, image)
          ELSE <<s[i]>> \o StripLinksFrom(s, i + 1, image)

StripLinks(s, image) == StripLinksFrom(s, 1, image)

\* the k-th replacement of stripMarkdown, in the order of the source
MdStep(s, k) ==
  CASE k = 1 -> StripLinks(s, TRUE)
    [] k = 2 -> StripLinks(s, FALSE)
    [] k = 3 -> StripEmph(s, "*", 3)
    [] k = 4 -> StripEmph(s, "*", 2)
    [] k = 5 -> StripEmph(s, "*", 1)
    [] k = 6 -> StripEmph(s, "_", 3)
    [] k = 7 -> StripEmph(s, "_", 2)
    [] k = 8 -> StripEmph(s, "_", 1)
    [] k = 9 -> StripEmph(s, BackTick, 1)
    [] k = 10 -> StripEmph(s, "~", 2)

\* the replacements order[1..k] applied one after the other
RECURSIVE MdChain(_, _, _)
MdChain(s, order, k) ==
  IF k = 0 THEN s ELSE MdStep(MdChain(s, order, k - 1), order[k])

MdOrder == <<1, 2, 3, 4, 5, 6, 7, 8, 9, 10>>

\* stripMarkdown with *italic* replaced before **bold**
stripMarkdown_ItalicBeforeBold(md) ==
  MdChain(md, <<1, 2, 3, 5, 4, 6, 7, 8, 9, 10>>, 10)

stripMarkdown(md) == MdChain(md, MdOrder, 10)

\* pieces of markup and of plain text the inputs are put together from
MdPieces ==
  { <<"*">>, <<"*", "*">>, <<"_">>, <<BackTick>>, <<"~", "~">>,
    <<"!", "[">>, <<"[">>, <<"]", "(">>, <<")">>, <<"a">>, <<NL>> }

RECURSIVE Flatten(_)
Flatten(ps) == IF ps = <<>> THEN <<>> ELSE Head(ps) \o Flatten(Tail(ps))

MdInputs ==
  { Flatten(ps) : ps \in UNION { [1..n -> MdPieces] : n \in 0..MaxPieces } }

StripMarkdownInit ==
  /\ fnArg \in MdInputs
  /\ fnResult = [done |-> FALSE]
  /\ NotFnIdle

\* stripMarkdown(fnArg)
ApplyStripMarkdown ==
  /\ ~fnResult.done
  /\ fnResult' = [done |-> TRUE, passes |-> 1,
                  value |-> stripMarkdown(fnArg)]
  /\ UNCHANGED <<fnArg, notFnVars>>

\* stripMarkdown applied to its own result
ApplyStripMarkdownAgain ==
  /\ fnResult.done
  /\ fnResult.passes = 1
  /\ fnResult' = [done |-> TRUE, passes |-> 2, first |-> fnResult.value,
                  value |-> stripMarkdown(fnResult.value)]
  /\ UNCHANGED <<fnArg, notFnVars>>

SpecStripMarkdown ==
  StripMarkdownInit /\ [][ApplyStripMarkdown \/ ApplyStripMarkdownAgain]_vars

\* -------------------------------------------------------------- C17
\* what the delimiters of the matches of d{n}(.+?)d{n} enclose
RECURSIVE EmphInteriors(_, _, _, _)
EmphInteriors(s, i, d, n) ==
  IF i > Len(s) THEN {}
  ELSE LET e == EmphEnd(s, i, d, n)
       IN IF e > 0
          THEN {SubSeq(s, i + n, e - 1)} \cup EmphInteriors(s, e + n, d, n)
          ELSE EmphInteriors(s, i + 1, d, n)

\* what the brackets and parentheses of the matched links enclose
RECURSIVE LinkInteriors(_, _, _)
LinkInteriors(s, i, image) ==
  IF i > Len(s) THEN {}
  ELSE LET m == LinkMatch(s, i, image)
       IN IF m.ok
          THEN {SubSeq(s, m.open + 1, m.close - 1),
                SubSeq(s, m.close + 2, m.last - 1)}
                 \cup LinkInteriors(s, m.last + 1, image)
          ELSE LinkInteriors(s, i + 1, image)

C17_Interiors(s, k) ==
  CASE k = 1 -> LinkInteriors(s, 1, TRUE)
    [] k = 2 -> LinkInteriors(s, 1, FALSE)
    [] k = 3 -> EmphInteriors(s, 1, "*", 3)
    [] k = 4 -> EmphInteriors(s, 1, "*", 2)
    [] k = 5 -> EmphInteriors(s, 1, "*", 1)
    [] k = 6 -> EmphInteriors(s, 1, "_", 3)
    [] k = 7 -> EmphInteriors(s, 1, "_", 2)
    [] k = 8 -> EmphInteriors(s, 1, "_", 1)
    [] k = 9 -> EmphInteriors(s, 1, BackTick, 1)
    [] k = 10 -> EmphInteriors(s, 1, "~", 2)

C17_NoMarkup(s) == \A k \in 1..Len(s) : s[k] \notin MarkupChars

\* no delimiters nested: whatever a pair of delimiters removed from s
\* encloses holds no markup character
RECURSIVE C17_NoNestedFrom(_, _)
C17_NoNestedFrom(s, k) ==
  \/ k > 10
  \/ /\ \A c \in C17_Interiors(s, k) : C17_NoMarkup(c)
     /\ C17_NoNestedFrom(MdStep(s, k), k + 1)

C17_NoNestedDelimiters(s) == C17_NoNestedFrom(s, 1)

\* C17: on an input without nested delimiters stripMarkdown applied to its
\* own result changes nothing, and an input without markup characters is
\* returned as it is.
C17_StripMarkdownIdempotent ==
  /\ (fnResult.done /\ fnResult.passes = 2 /\ C17_NoNestedDelimiters(fnArg))
       => fnResult.value = fnResult.first
  /\ (fnResult.done /\ fnResult.passes = 1 /\ C17_NoMarkup(fnArg))
       => fnResult.value = fnArg

\* markup without nesting was removed, and the second pass has run
C17_Witness ==
  /\ fnResult.done
  /\ fnResult.passes = 2
  /\ C17_NoNestedDelimiters(fnArg)
  /\ fnResult.first # fnArg
  /\ Len(fnResult.first) > 0

\* ------------------------------------ getSkillDescription as a function
\* the longest content under examination, in lines
MaxLines == 4

\* JavaScript \s and String.prototype.trim on the characters of the inputs
IsWhitespace(c) == c \in {" ", "\t", NL, "\r"}

RECURSIVE Trim(_)
Trim(s) ==
  IF s = <<>> THEN s
  ELSE IF IsWhitespace(s[1]) THEN Trim(Tail(s))
  ELSE IF IsWhitespace(s[Len(s)]) THEN Trim(SubSeq(s, 1, Len(s) - 1))
  ELSE s

\* the literal lit stands in s at position i
MatchesAt(s, i, lit) ==
  /\ i >= 1
  /\ i + Len(lit) - 1 <= Len(s)
  /\ SubSeq(s, i, i + Len(lit) - 1) = lit

Dashes == <<"-", "-", "-">>

DescriptionKey ==
  <<"d", "e", "s", "c", "r", "i", "p", "t", "i", "o", "n", ":">>

\* the last position of the run of whitespace that starts at position i,
\* i - 1 when there is none
RECURSIVE WhitespaceEnd(_, _)
WhitespaceEnd(s, i) ==
  IF i <= Len(s) /\ IsWhitespace(s[i]) THEN WhitespaceEnd(s, i + 1)
  ELSE i - 1

\* the last position of the line that position i is on
RECURSIVE LineEnd(_, _)
LineEnd(s, i) ==
  IF i < Len(s) /\ ~LineTerminator(s[i + 1]) THEN LineEnd(s, i + 1) ELSE i

\* content.match(/^---\s*\n([\s\S]*?)\n---/): the greedy \s* gives back
\* as little as it must, the lazy group takes the shortest text
FrontmatterMatch(content) ==
  LET closing(p) == { q \in (p + 1)..Len(content) :
                        MatchesAt(content, q, <<NL>> \o Dashes) }
      ps == { p \in 4..WhitespaceEnd(content, 4) :
                content[p] = NL /\ closing(p) # {} }
  IN IF ~MatchesAt(content, 1, Dashes) \/ ps = {}
     THEN [ok |-> FALSE]
     ELSE LET p == CHOOSE x \in ps : \A y \in ps : y <= x
              q == CHOOSE x \in closing(p) : \A y \in closing(p) : x <= y
          IN [ok |-> TRUE, inner |-> SubSeq(content, p + 1, q - 1),
              length |-> q + 3]

\* /^description:\s*(.+)$/m tried at position i of the frontmatter: where
\* the captured group starts, 0 for no match
DescriptionStart(fm, i) ==
  LET w == WhitespaceEnd(fm, i + Len(DescriptionKey))
      ts == { t \in (i + Len(DescriptionKey))..(w + 1) :
                t <= Len(fm) /\ ~LineTerminator(fm[t]) }
  IN IF /\ (i = 1 \/ LineTerminator(fm[i - 1]))
        /\ MatchesAt(fm, i, DescriptionKey)
        /\ ts # {}
     THEN CHOOSE t \in ts : \A y \in ts : y <= t
     ELSE 0

\* frontmatterMatch[1].match(/^description:\s*(.+)$/m)
DescriptionMatch(fm) ==
  LET is == { i \in 1..Len(fm) : DescriptionStart(fm, i) > 0 }
  IN IF is = {} THEN [ok |-> FALSE]
     ELSE LET i == CHOOSE x \in is : \A y \in is : x <= y
              t == DescriptionStart(fm, i)
          IN [ok |-> TRUE, value |-> SubSeq(fm, t, LineEnd(fm, t))]

Quotes == {"\"", "'"}

\* the quotes test and desc.slice(1, -1)
StripQuotes(desc) ==
  IF desc # <<>> /\ desc[1] \in Quotes /\ desc[Len(desc)] = desc[1]
  THEN SubSeq(desc, 2, Len(desc) - 1)
  ELSE desc

\* String.prototype.split("\n")
RECURSIVE SplitLines(_)
SplitLines(s) ==
  LET n == FirstAt(s, 1, NL)
  IN IF n = 0 THEN <<s>>
     ELSE <<SubSeq(s, 1, n - 1)>> \o SplitLines(SubSeq(s, n + 1, Len(s)))

\* the test of .find() on a trimmed line
Meaningful(line) ==
  /\ Len(line) > 0
  /\ line[1] # "#"
  /\ line # Dashes

SentenceEnds == {".", "!", "?"}

\* stripped.match(/^[^.!?\n]*[.!?]/)?.[0] || stripped
FirstSentence(stripped) ==
  LET ends == { k \in 1..Len(stripped) :
                  /\ stripped[k] \in SentenceEnds
                  /\ \A j \in 1..(k - 1) : stripped[j] # NL }
  IN IF ends = {} THEN stripped
     ELSE SubSeq(stripped, 1, CHOOSE k \in ends : \A y \in ends : k <= y)

NoDescription == [some |-> FALSE]

SomeDescription(t) == [some |-> TRUE, value |-> t]

\* the fall back to the first meaningful line of body
BodyDescription(body) ==
  LET lines == SplitLines(body)
      trimmed == [k \in 1..Len(lines) |-> Trim(lines[k])]
      found == { k \in 1..Len(trimmed) : Meaningful(trimmed[k]) }
  IN IF found = {} THEN NoDescription
     ELSE SomeDescription(FirstSentence(stripMarkdown(
            trimmed[CHOOSE k \in found : \A y \in found : k <= y])))

getSkillDescription(content) ==
  LET frontmatterMatch == FrontmatterMatch(content)
      descMatch == IF frontmatterMatch.ok
                   THEN DescriptionMatch(frontmatterMatch.inner)
                   ELSE [ok |-> FALSE]
  IN IF descMatch.ok
     THEN SomeDescription(stripMarkdown(StripQuotes(Trim(descMatch.value))))
     ELSE BodyDescription(IF frontmatterMatch.ok
                          THEN SliceFrom(content, frontmatterMatch.length)
                          ELSE content)

\* the lines the contents under examination are written with
ContentLines ==
  { Dashes,
    <<>>,
    DescriptionKey \o <<" ", "\"", "a", ".", "\"">>,
    DescriptionKey \o <<" ", "'", "*", "a", "*", "'">>,
    DescriptionKey,
    DescriptionKey \o <<" ", "\"">>,
    <<"#", " ", "a">>,
    <<" ", "*", "a", "*", ".", " ", "a">>,
    <<"a">> }

\* Array.prototype.join("\n")
RECURSIVE JoinLines(_)
JoinLines(ls) ==
  IF ls = <<>> THEN <<>>
  ELSE IF Len(ls) = 1 THEN ls[1]
  ELSE ls[1] \o <<NL>> \o JoinLines(Tail(ls))

ContentInputs ==
  { JoinLines(ls) :
      ls \in UNION { [1..n -> ContentLines] : n \in 0..MaxLines } }

SkillDescriptionInit ==
  /\ fnArg \in ContentInputs
  /\ fnResult = [done |-> FALSE]
  /\ NotFnIdle

\* getSkillDescription(fnArg)
ComputeSkillDescription ==
  /\ ~fnResult.done
  /\ fnResult' = [done |-> TRUE, value |-> getSkillDescription(fnArg)]
  /\ UNCHANGED <<fnArg, notFnVars>>

SpecSkillDescription ==
  SkillDescriptionInit /\ [][ComputeSkillDescription]_vars

\* -------------------------------------------------------------- C15
\* the line that closes the frontmatter of the content given in lines: the
\* first --- line after a leading --- line, 0 when there is none
C15_Close(lines) ==
  LET js == { j \in 2..Len(lines) : lines[j] = Dashes }
  IN IF lines[1] # Dashes \/ js = {} THEN 0
     ELSE CHOOSE j \in js : \A y \in js : j <= y

C15_Value(line) == Trim(SubSeq(line, Len(DescriptionKey) + 1, Len(line)))

\* the first line of the frontmatter that is a description field with a
\* value, 0 for none
C15_Field(lines) ==
  LET ks == { k \in 2..(C15_Close(lines) - 1) :
                /\ MatchesAt(lines[k], 1, DescriptionKey)
                /\ C15_Value(lines[k]) # <<>> }
  IN IF ks = {} THEN 0 ELSE CHOOSE k \in ks : \A y \in ks : k <= y

\* one matching pair of surrounding quotes removed
C15_Unquoted(v) ==
  IF Len(v) >= 2 /\ v[1] \in Quotes /\ v[Len(v)] = v[1]
  THEN SubSeq(v, 2, Len(v) - 1)
  ELSE v

\* the first line of the body that is not empty, not a heading and not ---
C16_Expected(lines) ==
  LET from == C15_Close(lines) + 1
      found == { k \in from..Len(lines) : Meaningful(Trim(lines[k])) }
  IN IF found = {} THEN NoDescription
     ELSE SomeDescription(FirstSentence(stripMarkdown(
            Trim(lines[CHOOSE k \in found : \A y \in found : k <= y]))))

\* C15: when the content starts with a frontmatter block closed by a ---
\* line and the block has a description field, the result is the value of
\* the field with one pair of surrounding quotes removed and markdown
\* stripped, whatever the body holds; otherwise the result is the one of
\* the body scan.
C15_FrontmatterDescriptionFirst ==
  fnResult.done =>
    LET lines == SplitLines(fnArg)
    IN IF C15_Field(lines) > 0
       THEN fnResult.value = SomeDescription(stripMarkdown(
              C15_Unquoted(C15_Value(lines[C15_Field(lines)]))))
       ELSE fnResult.value = C16_Expected(lines)

\* -------------------------------------------------------------- C16
\* C16: without a frontmatter description the result is the first line
\* after the frontmatter block that is not empty once trimmed, is not a
\* heading and is not ---, with markdown stripped and cut after its first
\* sentence end; none when no line qualifies.
C16_BodyFallback ==
  (fnResult.done /\ C15_Field(SplitLines(fnArg)) = 0) =>
    fnResult.value = C16_Expected(SplitLines(fnArg))

\* ------------------------------------------------- the onboarding form
\* how often Finish is clicked before the form has gone away
MaxSubmits == 2

\* steps: the ids of the steps, in order
steps == <<"step1", "step2", "step3">>

\* the first options of each step
StepOptions ==
  [step1 |-> {"software_engineer", "engineering_manager"},
   step2 |-> {"solo", "org_2_10"},
   step3 |-> {"new_features", "app_from_scratch"}]

currentStep == steps[currentStepIndex + 1]

isLastStep == currentStepIndex = Len(steps) - 1

isFirstStep == currentStepIndex = 0

\* obj[key] of a JavaScript object
Lookup(obj, key) == IF key \in DOMAIN obj THEN obj[key] ELSE "undefined"

\* { ...obj, [key]: value }
Spread(obj, key, value) ==
  [k \in DOMAIN obj \cup {key} |-> IF k = key THEN value ELSE obj[k]]

\* selections[currentStep.id] || null
currentSelection ==
  IF Lookup(selections, currentStep) \in {"undefined", ""}
  THEN "null"
  ELSE selections[currentStep]

\* isDisabled of the Next/Finish button, that never says TRUE
NextDisabled_Never == FALSE

\* isDisabled of the Next/Finish button
NextDisabled == currentSelection = "null"

\* the Back button is rendered
BackOffered == ~isFirstStep

\* StepHeader: the dots with index < currentStep, currentStep being the
\* step index plus one
FilledDots ==
  Cardinality({ index \in 0..(Len(steps) - 1) : index < currentStepIndex + 1 })

\* handleSelectOption that forgets the other steps
handleSelectOption_DropsOthers(optionId) ==
  selections' = Spread(<<>>, currentStep, optionId)

handleSelectOption(optionId) ==
  selections' = Spread(selections, currentStep, optionId)

\* a click on an option of the current step
SelectOption ==
  /\ ~redirected
  /\ \E optionId \in StepOptions[currentStep] :
       /\ handleSelectOption(optionId)
       /\ chosen' = Spread(chosen, currentStep, optionId)
  /\ click' = "select"
  /\ UNCHANGED <<currentStepIndex, submitted, tracked, pending, redirected>>
  /\ UNCHANGED notFormVars

handleNext ==
  IF isLastStep
  THEN /\ submitted' = Append(submitted, selections)
       /\ tracked' = Append(tracked,
                            [role |-> Lookup(selections, "step1"),
                             orgSize |-> Lookup(selections, "step2"),
                             useCase |-> Lookup(selections, "step3")])
       /\ pending' = pending + 1
       /\ UNCHANGED currentStepIndex
  ELSE /\ currentStepIndex' = currentStepIndex + 1
       /\ UNCHANGED <<submitted, tracked, pending>>

\* a click on the Next/Finish button, which a disabled button ignores
ClickNext ==
  /\ ~redirected
  /\ ~NextDisabled
  /\ isLastStep => Len(submitted) < MaxSubmits
  /\ handleNext
  /\ click' = IF isLastStep THEN "finish" ELSE "next"
  /\ UNCHANGED <<selections, chosen, redirected>>
  /\ UNCHANGED notFormVars

\* handleBack that returns to the first step
handleBack_ToFirst ==
  IF isFirstStep
  THEN UNCHANGED currentStepIndex
  ELSE currentStepIndex' = 0

\* on the first step handleBack leaves the form with navigate(-1)
handleBack ==
  IF isFirstStep
  THEN UNCHANGED currentStepIndex
  ELSE currentStepIndex' = currentStepIndex - 1

\* a click on the Back button
ClickBack ==
  /\ ~redirected
  /\ BackOffered
  /\ handleBack
  /\ click' = "back"
  /\ UNCHANGED <<selections, submitted, tracked, chosen, pending, redirected>>
  /\ UNCHANGED notFormVars

\* a submitOnboarding mutation settles: onSuccess navigates to "/", onError
\* loads "/", and either way the form is gone
SubmitSettles ==
  /\ pending > 0
  /\ pending' = pending - 1
  /\ redirected' = TRUE
  /\ click' = "none"
  /\ UNCHANGED <<currentStepIndex, selections, submitted, tracked, chosen>>
  /\ UNCHANGED notFormVars

OnboardingNext == SelectOption \/ ClickNext \/ ClickBack \/ SubmitSettles

SpecOnboarding == Init /\ [][OnboardingNext]_vars

\* -------------------------------------------------------------- C18
StepIds == { steps[n] : n \in 1..Len(steps) }

\* C18: Finish passes to submitOnboarding a map that holds for each of the
\* three steps the option clicked last on it; a click on an option changes
\* the entry of the current step only, Next and Back change no entry.
C18_SubmitsLatestSelections ==
  [][/\ click' = "finish" =>
          /\ submitted' = Append(submitted, chosen)
          /\ DOMAIN chosen = StepIds
     /\ click' = "select" =>
          /\ DOMAIN selections' = DOMAIN selections \cup {currentStep}
          /\ selections'[currentStep] = chosen'[currentStep]
          /\ \A k \in DOMAIN selections \ {currentStep} :
               selections'[k] = selections[k]
     /\ click' \in {"next", "back", "finish"} =>
          selections' = selections]_vars

\* Finish was clicked with an option chosen on each of the three steps
C18_Witness ==
  /\ click = "finish"
  /\ Len(submitted) = 1
  /\ submitted[1].step1 = "engineering_manager"
  /\ submitted[1].step2 = "org_2_10"

\* -------------------------------------------------------------- C19
\* C19: the Next/Finish button is disabled exactly when the current step
\* has no selection, so every step before the current one has a selection
\* and every submitted map has one for each of the three steps.
C19_NextNeedsSelection ==
  /\ NextDisabled <=> currentStep \notin DOMAIN selections
  /\ \A n \in 1..currentStepIndex : steps[n] \in DOMAIN selections
  /\ \A n \in 1..Len(submitted) : DOMAIN submitted[n] = StepIds

\* the second step is shown, with nothing selected on it
C19_Witness ==
  /\ currentStepIndex = 1
  /\ click = "next"
  /\ NextDisabled

\* all three steps answered and submitted
C19_WitnessSubmitted ==
  /\ click = "finish"
  /\ Len(submitted) > 0

\* -------------------------------------------------------------- C20
\* C20: the wizard starts at step 1; Next moves forward by one step, Back
\* moves back by one step and is not offered on the first step, Finish
\* keeps the step; the step index stays within 0..2 and the filled
\* progress dots number the step index plus one.
C20_StepNavigation ==
  /\ currentStepIndex = 0
  /\ [](/\ currentStepIndex \in 0..2
        /\ FilledDots = currentStepIndex + 1
        /\ currentStepIndex = 0 => ~BackOffered)
  /\ [][/\ click' = "next" =>
             (~isLastStep /\ currentStepIndex' = currentStepIndex + 1)
        /\ click' = "back" =>
             (~isFirstStep /\ currentStepIndex' = currentStepIndex - 1)
        /\ click' = "finish" =>
             (isLastStep /\ currentStepIndex' = currentStepIndex)]_vars

\* Back was clicked on the last step
C20_Witness ==
  /\ click = "back"
  /\ currentStepIndex = 1
  /\ FilledDots = 2

\* -------------------------------------------------------------- C26
\* C26: whenever the menu goes from closed to open the highlighted index
\* is 0, whatever happened before the menu was closed.
C26_OpensOnFirstCandidate ==
  [][(~isMenuOpen /\ isMenuOpen') => selectedIndex' = 0]_vars

\* -------------------------------------------------------------- C27
\* C27: a commit never opens the menu again: with the caret right after
\* the inserted space the recompute that follows detects no slash token,
\* the menu stays closed, and the key pressed next is not consumed.
C27_CommitKeepsMenuClosed ==
  /\ [](Committed =>
          /\ getSlashText(mounted, text, caret) = NoToken
          /\ ~isMenuOpen
          /\ ~isMenuOpenRef)
  /\ [][(Committed /\ event'.op = "keydown") =>
          /\ event'.ret = FALSE
          /\ ~event'.prevented
          /\ event'.item = NoItem
          /\ text' = text]_vars

\* a command was committed in front of other text, the caret stands right
\* after the inserted space and the input notification has been handled
C27_Witness ==
  /\ Committed
  /\ caret >= 1
  /\ caret < Len(text)
  /\ text[caret] = " "
  /\ LogBefore("textContent", "input")

\* -------------------------------------------------------------- C28
\* the recorded range is one that a recompute on the present text yields
C28_RangeOfPresentText ==
  \E c \in 0..Len(text) :
    LET r == getSlashText(mounted, text, c)
    IN r.found /\ slashRangeRef = [start |-> r.start, end |-> r.end]

\* C28: while the menu is open, and a commit can thus be triggered, the
\* recorded range was computed from the present text of the surface, lies
\* within it and starts at a slash.
\* Every commit is made with the menu open and with that range, so none
\* uses a range recorded before an earlier close.
C28_CommitRangeIsCurrent ==
  /\ [](isMenuOpen =>
          /\ slashRangeRef # NoRange
          /\ C28_RangeOfPresentText
          /\ 0 <= slashRangeRef.start
          /\ slashRangeRef.start < slashRangeRef.end
          /\ slashRangeRef.end <= Len(text)
          /\ text[slashRangeRef.start + 1] = "/")
  /\ [][event'.item # NoItem =>
          /\ isMenuOpen
          /\ slashRangeRef # NoRange
          /\ C28_RangeOfPresentText]_vars

\* Enter or Tab committed a command over a token that did not start the
\* text
C28_Witness ==
  /\ Committed
  /\ event.op = "keydown"
  /\ Len(text) > Len(event.item.command) + 1
  /\ SubSeq(text, 1, Len(event.item.command)) # event.item.command

\* -------------------------------------------------------------- C30
\* C30: whatever is clicked in the wizard, submitOnboarding and the
\* tracking of the completed onboarding are called at most once, also when
\* Finish is clicked again before the redirect.
C30_SubmittedAtMostOnce ==
  /\ Len(submitted) <= 1
  /\ Len(tracked) <= 1

\* ------------------------------------------------ open-repository modal
\* how often the modal is opened in one behaviour
MaxOpens == 2

\* the providers a user can have connected
ProviderLists ==
  {<<>>, <<"github">>, <<"gitlab">>, <<"github", "gitlab">>}

\* the default of the defaultProvider property
defaultProvider == "github"

Repositories ==
  {[id |-> 1, full_name |-> "owner/repo", git_provider |-> "github",
    main_branch |-> "main"],
   [id |-> 2, full_name |-> "group/lib", git_provider |-> "gitlab",
    main_branch |-> "dev"]}

Branches == {[name |-> "main"], [name |-> "dev"]}

InList(seq, x) == \E i \in 1..Len(seq) : seq[i] = x

\* the effect that selects a provider when none is selected
AutoSelectProvider(ps, sel) ==
  IF Len(ps) = 1 /\ sel = "null" THEN ps[1]
  ELSE IF Len(ps) > 1 /\ sel = "null" /\ InList(ps, defaultProvider)
       THEN defaultProvider
  ELSE sel

\* the Launch button is disabled unless canLaunch
canLaunch ==
  selectedRepository # NoRepository /\ selectedBranch # NoBranch

\* the repository button of the git control bar
OpenModal ==
  /\ ~isOpenRepoModalOpen
  /\ closed < MaxOpens
  /\ isOpenRepoModalOpen' = TRUE
  /\ modalEvent' = [op |-> "open"]
  /\ UNCHANGED <<providers, selectedProvider, selectedRepository,
                 selectedBranch, launched, closed>>
  /\ UNCHANGED notModalVars

\* the user's providers are loaded or change
ProvidersChange ==
  /\ \E ps \in ProviderLists :
       /\ ps # providers
       /\ providers' = ps
       /\ selectedProvider' = AutoSelectProvider(ps, selectedProvider)
  /\ modalEvent' = [op |-> "providers"]
  /\ UNCHANGED <<isOpenRepoModalOpen, selectedRepository, selectedBranch,
                 launched, closed>>
  /\ UNCHANGED notModalVars

handleProviderChange(provider) ==
  IF provider = selectedProvider
  THEN UNCHANGED <<selectedProvider, selectedRepository, selectedBranch>>
  ELSE /\ selectedProvider' = AutoSelectProvider(providers, provider)
       /\ selectedRepository' = NoRepository
       /\ selectedBranch' = NoBranch

\* the provider dropdown, shown when there are several providers
ProviderChange ==
  /\ isOpenRepoModalOpen
  /\ Len(providers) > 1
  /\ \E provider \in {providers[i] : i \in 1..Len(providers)} \cup {"null"} :
       /\ handleProviderChange(provider)
       /\ modalEvent' = [op |-> "provider", provider |-> provider,
                        enabled |-> canLaunch]
  /\ UNCHANGED <<isOpenRepoModalOpen, providers, launched, closed>>
  /\ UNCHANGED notModalVars

handleRepositoryChange_KeepsBranch(repository) ==
  /\ selectedRepository' =
       IF repository # NoRepository THEN repository ELSE NoRepository
  /\ UNCHANGED selectedBranch

handleRepositoryChange(repository) ==
  IF repository # NoRepository
  THEN /\ selectedRepository' = repository
       /\ selectedBranch' = NoBranch
  ELSE /\ selectedRepository' = NoRepository
       /\ selectedBranch' = NoBranch

\* the repository dropdown selects a repository or clears the selection
RepositoryChange ==
  /\ isOpenRepoModalOpen
  /\ \E repository \in Repositories \cup {NoRepository} :
       /\ handleRepositoryChange(repository)
       /\ modalEvent' = [op |-> "repository", repository |-> repository,
                        enabled |-> canLaunch]
  /\ UNCHANGED <<isOpenRepoModalOpen, providers, selectedProvider, launched,
                 closed>>
  /\ UNCHANGED notModalVars

handleBranchSelect(branch) ==
  selectedBranch' = branch

\* the branch dropdown, disabled while no repository is selected
BranchSelect ==
  /\ isOpenRepoModalOpen
  /\ selectedRepository # NoRepository
  /\ \E branch \in Branches \cup {NoBranch} :
       /\ handleBranchSelect(branch)
       /\ modalEvent' = [op |-> "branch", branch |-> branch]
  /\ UNCHANGED <<isOpenRepoModalOpen, providers, selectedProvider,
                 selectedRepository, launched, closed>>
  /\ UNCHANGED notModalVars

handleLaunch_Unguarded ==
  /\ launched' = Append(launched, [repository |-> selectedRepository,
                                   branch |-> selectedBranch])
  /\ selectedRepository' = NoRepository
  /\ selectedBranch' = NoBranch
  /\ closed' = closed + 1
  /\ isOpenRepoModalOpen' = FALSE

handleLaunch ==
  IF selectedRepository = NoRepository \/ selectedBranch = NoBranch
  THEN UNCHANGED <<launched, selectedRepository, selectedBranch, closed,
                   isOpenRepoModalOpen>>
  ELSE /\ launched' = Append(launched, [repository |-> selectedRepository,
                                        branch |-> selectedBranch])
       /\ selectedRepository' = NoRepository
       /\ selectedBranch' = NoBranch
       /\ closed' = closed + 1
       /\ isOpenRepoModalOpen' = FALSE

\* the click handler of the Launch button runs, whatever the button shows
ClickLaunch ==
  /\ isOpenRepoModalOpen
  /\ handleLaunch
  /\ modalEvent' = [op |-> "launch", enabled |-> canLaunch]
  /\ UNCHANGED <<providers, selectedProvider>>
  /\ UNCHANGED notModalVars

handleClose ==
  /\ selectedProvider' = AutoSelectProvider(providers, "null")
  /\ selectedRepository' = NoRepository
  /\ selectedBranch' = NoBranch
  /\ closed' = closed + 1
  /\ isOpenRepoModalOpen' = FALSE

\* the Cancel button or the backdrop
ClickCancel ==
  /\ isOpenRepoModalOpen
  /\ handleClose
  /\ modalEvent' = [op |-> "cancel"]
  /\ UNCHANGED <<providers, launched>>
  /\ UNCHANGED notModalVars

ModalNext ==
  \/ OpenModal
  \/ ProvidersChange
  \/ ProviderChange
  \/ RepositoryChange
  \/ BranchSelect
  \/ ClickLaunch
  \/ ClickCancel

SpecModal == Init /\ [][ModalNext]_vars

\* -------------------------------------------------------------- C21
\* C21: the Launch button is enabled exactly when a repository and a branch
\* are both selected; onLaunch is only called in such a state, with the
\* selected repository and branch, and that Launch clears both selections and
\* calls onClose once; a Launch attempt without both selections calls neither
\* onLaunch nor onClose.
C21_LaunchNeedsBothSelections ==
  /\ [](canLaunch <=> (selectedRepository \in Repositories
                         /\ selectedBranch \in Branches))
  /\ [][launched' # launched =>
          /\ modalEvent'.op = "launch"
          /\ selectedRepository \in Repositories
          /\ selectedBranch \in Branches
          /\ launched' = Append(launched,
                                [repository |-> selectedRepository,
                                 branch |-> selectedBranch])
          /\ selectedRepository' = NoRepository
          /\ selectedBranch' = NoBranch
          /\ closed' = closed + 1
          /\ ~isOpenRepoModalOpen']_vars
  /\ [][(modalEvent'.op = "launch" /\ ~canLaunch) =>
          /\ launched' = launched
          /\ closed' = closed
          /\ isOpenRepoModalOpen']_vars

\* a second launch went through, with a repository and branch other than
\* those of the first
C21_Witness ==
  /\ Len(launched) = 2
  /\ launched[1].repository # launched[2].repository
  /\ launched[1].branch # launched[2].branch
  /\ modalEvent.op = "launch"
  /\ closed = 2

\* -------------------------------------------------------------- C22
\* C22: selecting or clearing a repository always resets the branch to none;
\* switching to a different provider resets repository and branch to none;
\* after either, Launch is disabled; choosing the provider that is already
\* selected changes nothing.
C22_SelectionResets ==
  /\ [][modalEvent'.op = "repository" =>
          /\ selectedBranch' = NoBranch
          /\ selectedRepository' = modalEvent'.repository
          /\ ~canLaunch']_vars
  /\ [][(modalEvent'.op = "provider"
           /\ modalEvent'.provider # selectedProvider) =>
          /\ selectedRepository' = NoRepository
          /\ selectedBranch' = NoBranch
          /\ ~canLaunch']_vars
  /\ [][(modalEvent'.op = "provider"
           /\ modalEvent'.provider = selectedProvider) =>
          UNCHANGED <<selectedProvider, selectedRepository, selectedBranch,
                      isOpenRepoModalOpen, launched, closed>>]_vars
  /\ [][(~canLaunch /\ canLaunch') => modalEvent'.op = "branch"]_vars

\* the provider was switched to another one while Launch was enabled
C22_Witness ==
  /\ modalEvent.op = "provider"
  /\ modalEvent.enabled
  /\ modalEvent.provider = "gitlab"
  /\ selectedProvider = "gitlab"
  /\ ~canLaunch

\* ---------------------------------------------------- repository update
\* how many updates are started in one behaviour
MaxMutations == 2

ConversationIds == {"undefined", "conv-1"}

WebSocketStatuses == {"CONNECTING", "CONNECTED", "DISCONNECTED"}

\* what the server may hold for the conversation at the start
InitialConversations ==
  {Conversation("null", "null", "null"),
   Conversation("owner/repo", "main", "github")}

ConversationKey(id) == <<"user", "conversation", id>>

ConversationsKey == <<"user", "conversations">>

\* the updater of the optimistic setQueryData
OptimisticUpdate(old, variables) ==
  IF old.loaded
  THEN [old EXCEPT !.selected_repository = variables.repository,
                   !.selected_branch = variables.branch,
                   !.git_provider = variables.gitProvider]
  ELSE old

\* the context onMutate returns
onMutateContext(variables) ==
  [previousConversation |-> cache]

\* the write of onMutate
onMutate(variables) ==
  cache' = OptimisticUpdate(cache, variables)

ErrorToast(from) == [kind |-> "error", from |-> from]

SuccessToast(from) == [kind |-> "success", from |-> from]

\* the write of onError
onError_NoRollback(context) ==
  UNCHANGED cache

onError(context) ==
  IF context.previousConversation.loaded
  THEN cache' = context.previousConversation
  ELSE UNCHANGED cache

onSettled(variables) ==
  invalidated' =
    invalidated \o <<ConversationKey(variables.conversationId),
                     ConversationsKey>>

Capitalize(provider) ==
  IF provider = "github" THEN "Github"
  ELSE IF provider = "gitlab" THEN "Gitlab"
  ELSE provider

clonePrompt(repository, branch) ==
  <<"Clone ", repository.full_name, " from ",
    Capitalize(repository.git_provider), " and checkout branch ",
    branch.name, ".">>

CloneMessage(repository, branch) ==
  [action |-> "message", content |-> clonePrompt(repository, branch)]

\* the onSuccess given to mutate; shown is what the hook has displayed
launchOnSuccess_IgnoresStatus(repository, branch, shown) ==
  /\ toasts' = shown
  /\ optimisticUserMessage' = clonePrompt(repository, branch)
  /\ sent' = Append(sent, CloneMessage(repository, branch))

launchOnSuccess(repository, branch, shown) ==
  IF webSocketStatusRef # "CONNECTED"
  THEN /\ toasts' = Append(shown, ErrorToast("bar"))
       /\ UNCHANGED <<sent, optimisticUserMessage>>
  ELSE /\ toasts' = shown
       /\ optimisticUserMessage' = clonePrompt(repository, branch)
       /\ sent' = Append(sent, CloneMessage(repository, branch))

handleLaunchRepository(repository, branch) ==
  IF conversationId = "undefined"
  THEN UNCHANGED <<recentRepositories, cache, mutations>>
  ELSE LET variables == [conversationId |-> conversationId,
                         repository |-> repository.full_name,
                         branch |-> branch.name,
                         gitProvider |-> repository.git_provider]
       IN /\ recentRepositories' = Append(recentRepositories, repository)
          /\ onMutate(variables)
          /\ mutations' =
               Append(mutations,
                      [variables |-> variables,
                       context |-> onMutateContext(variables),
                       status |-> "pending",
                       repository |-> repository,
                       branch |-> branch,
                       before |-> cache,
                       overlaps |-> {i \in 1..Len(mutations) :
                                       mutations[i].status = "pending"}])

\* the modal hands a repository and a branch to the bar
LaunchRepository ==
  /\ Len(mutations) < MaxMutations
  /\ \E repository \in Repositories, branch \in Branches :
       /\ handleLaunchRepository(repository, branch)
       /\ repoEvent' = [op |-> "launch", repository |-> repository,
                        branch |-> branch]
  /\ UNCHANGED <<conversationId, server, toasts, invalidated,
                 webSocketStatus, webSocketStatusRef, sent,
                 optimisticUserMessage>>
  /\ UNCHANGED notRepoVars

\* the server accepts an update: the callbacks of the hook, then the one
\* given to mutate when this is the latest update
UpdateSucceeds ==
  /\ \E i \in 1..Len(mutations) :
       LET m == mutations[i]
       IN /\ m.status = "pending"
          /\ server' = OptimisticUpdate(server, m.variables)
          /\ onSettled(m.variables)
          /\ IF i = Len(mutations)
             THEN launchOnSuccess(m.repository, m.branch,
                                  Append(toasts, SuccessToast("hook")))
             ELSE /\ toasts' = Append(toasts, SuccessToast("hook"))
                  /\ UNCHANGED <<sent, optimisticUserMessage>>
          /\ mutations' = [mutations EXCEPT ![i].status = "success"]
          /\ repoEvent' = [op |-> "success", of |-> i]
  /\ UNCHANGED <<conversationId, cache, webSocketStatus, webSocketStatusRef,
                 recentRepositories>>
  /\ UNCHANGED notRepoVars

\* the request of an update fails
UpdateFails ==
  /\ \E i \in 1..Len(mutations) :
       LET m == mutations[i]
       IN /\ m.status = "pending"
          /\ onError(m.context)
          /\ toasts' = Append(toasts, ErrorToast("hook"))
          /\ onSettled(m.variables)
          /\ mutations' = [mutations EXCEPT ![i].status = "error"]
          /\ repoEvent' = [op |-> "fail", of |-> i]
  /\ UNCHANGED <<conversationId, server, webSocketStatus,
                 webSocketStatusRef, sent, optimisticUserMessage,
                 recentRepositories>>
  /\ UNCHANGED notRepoVars

\* the conversation query fetches what the server holds
Refetch ==
  /\ conversationId # "undefined"
  /\ cache # server
  /\ cache' = server
  /\ repoEvent' = [op |-> "refetch"]
  /\ UNCHANGED <<conversationId, server, mutations, toasts, invalidated,
                 webSocketStatus, webSocketStatusRef, sent,
                 optimisticUserMessage, recentRepositories>>
  /\ UNCHANGED notRepoVars

\* the socket changes its status; the bar renders and its effect copies the
\* status into the ref
WebSocketStatusChange ==
  /\ \E status \in WebSocketStatuses \ {webSocketStatus} :
       /\ webSocketStatus' = status
       /\ webSocketStatusRef' = status
  /\ repoEvent' = [op |-> "status"]
  /\ UNCHANGED <<conversationId, cache, server, mutations, toasts,
                 invalidated, sent, optimisticUserMessage,
                 recentRepositories>>
  /\ UNCHANGED notRepoVars

RepositoryUpdateInit ==
  /\ HookInit /\ FnIdle /\ FormIdle /\ ModalIdle
  /\ conversationId \in ConversationIds
  /\ server \in InitialConversations
  /\ cache \in {NoData, server}
  /\ mutations = <<>>
  /\ toasts = <<>>
  /\ invalidated = <<>>
  /\ webSocketStatus \in WebSocketStatuses
  /\ webSocketStatusRef = webSocketStatus
  /\ sent = <<>>
  /\ optimisticUserMessage = <<>>
  /\ recentRepositories = <<>>
  /\ repoEvent = [op |-> "none"]

RepositoryUpdateNext ==
  \/ LaunchRepository
  \/ UpdateSucceeds
  \/ UpdateFails
  \/ Refetch
  \/ WebSocketStatusChange

SpecRepositoryUpdate ==
  RepositoryUpdateInit /\ [][RepositoryUpdateNext]_vars

\* the toasts the callbacks of useUpdateConversationRepository displayed
HookToasts(shown) == SelectSeq(shown, LAMBDA toast : toast.from = "hook")

\* -------------------------------------------------------------- C23
\* C23: on mutate the cached conversation gets the requested repository,
\* branch and provider while the request is still pending; when the request
\* fails the cached conversation is put back to the value it had before that
\* mutate; after either outcome the conversation query and the conversations
\* list are invalidated and the hook has displayed exactly one toast, a
\* success toast on success and an error toast on failure.
C23_OptimisticWithRollback ==
  /\ [][(repoEvent'.op = "launch" /\ conversationId # "undefined"
           /\ cache.loaded) =>
          /\ cache' = Conversation(repoEvent'.repository.full_name,
                                   repoEvent'.branch.name,
                                   repoEvent'.repository.git_provider)
          /\ mutations'[Len(mutations')].status = "pending"
          /\ server' = server]_vars
  /\ [][repoEvent'.op = "fail" =>
          LET m == mutations[repoEvent'.of]
          IN /\ m.before.loaded => cache' = m.before
             /\ HookToasts(toasts') =
                  Append(HookToasts(toasts), ErrorToast("hook"))
             /\ invalidated' =
                  invalidated \o <<ConversationKey(conversationId),
                                   ConversationsKey>>]_vars
  /\ [][repoEvent'.op = "success" =>
          /\ HookToasts(toasts') =
               Append(HookToasts(toasts), SuccessToast("hook"))
          /\ invalidated' =
               invalidated \o <<ConversationKey(conversationId),
                                ConversationsKey>>]_vars

\* an update of a cached conversation failed and the cache, which held the
\* requested values, is back at the value from before
C23_Witness ==
  /\ repoEvent.op = "fail"
  /\ Len(mutations) = 1
  /\ mutations[1].before.loaded
  /\ cache = mutations[1].before
  /\ cache # OptimisticUpdate(cache, mutations[1].variables)
  /\ Len(toasts) = 1
  /\ Len(invalidated) = 2

C29_RollbackUnderOverlap ==
  \A i, j \in 1..Len(mutations) :
    (/\ i < j
     /\ i \in mutations[j].overlaps
     /\ mutations[i].status = "error"
     /\ mutations[j].status = "error"
     /\ mutations[i].before.loaded
     /\ repoEvent.op = "fail"
     /\ repoEvent.of \in {i, j})
    => cache = mutations[i].before

\* ------------------------------------------------------ mutateWithToast
\* a message option: undefined, false, a string, a function that returns
\* value, or a function that throws an Error with message value
MessageOption(kind, value) == [kind |-> kind, value |-> value]

SuccessOptions ==
  {MessageOption("undefined", ""), MessageOption("false", ""),
   MessageOption("string", ""), MessageOption("string", "Key deleted"),
   MessageOption("function", ""), MessageOption("function", "Deleted key"),
   MessageOption("throws", "cannot format")}

ErrorOptions ==
  {MessageOption("undefined", ""), MessageOption("false", ""),
   MessageOption("string", ""), MessageOption("string", "Something failed"),
   MessageOption("function", "Could not delete"),
   MessageOption("throws", "cannot format")}

LoadingOptions == {"undefined", "", "Deleting"}

\* what a promise settles with: data, an Error or another thrown value
Settled(state, kind, content) ==
  [state |-> state, value |-> [kind |-> kind, content |-> content]]

\* how mutateAsync may settle
MutationOutcomes ==
  {Settled("resolved", "data", "deleted"),
   Settled("rejected", "Error", "Request failed"),
   Settled("rejected", "other", "503")}

Truthy(string) == string \notin {"undefined", ""}

GenericError == "ERROR$GENERIC"

\* toast.dismiss of the loading toast, when there is one
DismissLoading(shown, loadingToastId) ==
  IF Truthy(loadingToastId) THEN Append(shown, <<"dismiss", loadingToastId>>)
  ELSE shown

\* the catch block, entered with err
mutateWithToastCatch(messages, err, shown, loadingToastId) ==
  LET dismissed == DismissLoading(shown, loadingToastId)
      error == messages.error
      message ==
        IF error.kind = "function" THEN error.value
        ELSE IF error.kind = "string" /\ Truthy(error.value) THEN error.value
        ELSE IF err.kind = "Error" THEN err.content
        ELSE GenericError
  IN IF error.kind = "false"
     THEN [state |-> "rejected", value |-> err, shown |-> dismissed]
     ELSE IF error.kind = "throws"
     THEN [state |-> "rejected",
           value |-> [kind |-> "Error", content |-> error.value],
           shown |-> dismissed]
     ELSE [state |-> "rejected", value |-> err,
           shown |-> Append(dismissed, <<"error", message>>)]

\* the try block after mutateAsync has resolved with result
mutateWithToastTry(messages, result, shown, loadingToastId) ==
  LET dismissed == DismissLoading(shown, loadingToastId)
      success == messages.success
      message ==
        IF success.kind \in {"function", "string"} THEN success.value
        ELSE "undefined"
  IN IF success.kind = "false"
     THEN [state |-> "resolved", value |-> result, shown |-> dismissed]
     ELSE IF success.kind = "throws"
     THEN mutateWithToastCatch(messages,
                               [kind |-> "Error", content |-> success.value],
                               dismissed, loadingToastId)
     ELSE [state |-> "resolved", value |-> result,
           shown |-> IF Truthy(message)
                     THEN Append(dismissed, <<"success", message>>)
                     ELSE dismissed]

MutateWithToastInit ==
  /\ fnArg \in [success : SuccessOptions, error : ErrorOptions,
                loading : LoadingOptions, outcome : MutationOutcomes]
  /\ fnResult = [done |-> FALSE, pc |-> "start"]
  /\ NotFnIdle

\* mutateWithToast up to its await
CallMutateWithToast ==
  /\ ~fnResult.done
  /\ fnResult.pc = "start"
  /\ fnResult' =
       [done |-> FALSE, pc |-> "await",
        loadingToastId |->
          IF Truthy(fnArg.loading) THEN "toast-1" ELSE "undefined",
        shown |->
          IF Truthy(fnArg.loading) THEN <<<<"loading", fnArg.loading>>>>
          ELSE <<>>]
  /\ UNCHANGED <<fnArg, notFnVars>>

\* mutateAsync settles and mutateWithToast runs to its end
MutationSettles ==
  /\ ~fnResult.done
  /\ fnResult.pc = "await"
  /\ LET settled ==
           IF fnArg.outcome.state = "resolved"
           THEN mutateWithToastTry(fnArg, fnArg.outcome.value,
                                   fnResult.shown, fnResult.loadingToastId)
           ELSE mutateWithToastCatch(fnArg, fnArg.outcome.value,
                                     fnResult.shown, fnResult.loadingToastId)
     IN fnResult' = [done |-> TRUE, pc |-> "done", state |-> settled.state,
                     value |-> settled.value, shown |-> settled.shown]
  /\ UNCHANGED <<fnArg, notFnVars>>

SpecMutateWithToast ==
  MutateWithToastInit /\ [][CallMutateWithToast \/ MutationSettles]_vars

\* -------------------------------------------------------------- C25
C25_Shown(kind) ==
  {i \in 1..Len(fnResult.shown) : fnResult.shown[i][1] = kind}

\* the error message the claim prescribes
C25_ErrorMessage ==
  IF fnArg.error.kind = "function" THEN fnArg.error.value
  ELSE IF fnArg.error.kind = "string" /\ Truthy(fnArg.error.value)
       THEN fnArg.error.value
  ELSE IF fnArg.outcome.value.kind = "Error"
       THEN fnArg.outcome.value.content
  ELSE GenericError

\* C25 (as stated): mutateWithToast settles like the wrapped mutation, with
\* its result on success and with the same error on failure; a loading toast
\* that was shown is dismissed before any outcome toast; a success toast is
\* shown only on success and an error toast only on failure, none when the
\* option is false; the error message is that of the error function, else the
\* error string, else the error's own message, else the generic text.
C25_SettlesLikeMutation ==
  fnResult.done =>
    /\ fnResult.state = fnArg.outcome.state
    /\ fnResult.value = fnArg.outcome.value
    /\ Truthy(fnArg.loading) =>
         /\ C25_Shown("dismiss") # {}
         /\ \A i \in C25_Shown("success") \cup C25_Shown("error") :
              \E j \in C25_Shown("dismiss") : j < i
    /\ C25_Shown("success") # {} => fnArg.outcome.state = "resolved"
    /\ C25_Shown("error") # {} => fnArg.outcome.state = "rejected"
    /\ fnArg.success.kind = "false" => C25_Shown("success") = {}
    /\ fnArg.error.kind = "false" => C25_Shown("error") = {}
    /\ \A i \in C25_Shown("error") :
         fnResult.shown[i][2] = C25_ErrorMessage


============================================================================
